---- MODULE Spec2Model ----
(***************************************************************************)
(* Model of the scripts of lsp-containers.                                 *)
(*                                                                         *)
(*   scripts/server_versions.py     the registry version resolver: main    *)
(*       loads registry.toml, launches one fetch_version task per          *)
(*       object-valued entry, joins them with asyncio.gather and writes    *)
(*       the report (specification Spec).                                  *)
(*   scripts/get_changed_images.py  the selector of the image directories  *)
(*       to rebuild (specification ImagesSpec).                            *)
(*                                                                         *)
(* Strings whose characters the code inspects (release tags, probe output, *)
(* file paths) are sequences of one-character strings.                     *)
(***************************************************************************)
EXTENDS Integers, Sequences, FiniteSets, TLC

VARIABLES
    pc,        \* position of server_versions.main: "start", "loaded", "gather",
               \* "done", or where it raised: "load_raised", "gather_raised"
    wiki,      \* the parsed registry.toml: the sequence of its top-level values
    task,      \* the fetch_version tasks, one per entry of wiki
    requests,  \* entries for which an upstream request or probe was issued
    stderr,    \* the diagnostics printed, in order: the server each one names
    stdout,    \* the documents written to standard output
    exit,      \* the exit status of the process, -1 while it runs
    ipc,       \* position of get_changed_images.main
    ienv,      \* its environment: event name, base sha, listing, git's answer
    gitcmd,    \* the git diff commands it ran
    iout,      \* the lines it printed
    iexit      \* its exit status, -1 while it runs

svars == <<pc, wiki, task, requests, stderr, stdout, exit>>
ivars == <<ipc, ienv, gitcmd, iout, iexit>>
vars == <<pc, wiki, task, requests, stderr, stdout, exit, ipc, ienv, gitcmd, iout, iexit>>

\* The largest number of top-level entries of registry.toml explored.
NumServers == 2

(***************************************************************************)
(* Values and strings                                                      *)
(***************************************************************************)

\* A Python value that is either None (JSON null) or a string.
None == [null |-> TRUE, s |-> <<>>]
Str(s) == [null |-> FALSE, s |-> s]

\* str.lstrip(chars): drops every leading character that is in chars.
RECURSIVE lstrip(_, _)
lstrip(s, chars) ==
    IF s # <<>> /\ Head(s) \in chars THEN lstrip(Tail(s), chars) ELSE s

\* str.rstrip(chars)
RECURSIVE rstrip(_, _)
rstrip(s, chars) ==
    IF s # <<>> /\ s[Len(s)] \in chars
    THEN rstrip(SubSeq(s, 1, Len(s) - 1), chars)
    ELSE s

Whitespace == {" ", "\n", "\t"}

\* str.strip() with no argument
strip(s) == rstrip(lstrip(s, Whitespace), Whitespace)

(***************************************************************************)
(* The configuration                                                       *)
(***************************************************************************)

RecognizedTypes == {"npm", "pypi", "github", "custom"}

\* The values a top-level key of registry.toml can have, as far as main and
\* fetch_version look at them: a scalar, or a table with or without "type",
\* with or without the key its type reads, and with strip_v unset, false or
\* true.
Entries ==
    {[dict |-> FALSE, type |-> "none", param |-> FALSE, strip_v |-> "unset"]}
    \cup {[dict |-> TRUE, type |-> t, param |-> FALSE, strip_v |-> "unset"] :
            t \in {"none", "docker"}}
    \cup {[dict |-> TRUE, type |-> t, param |-> p, strip_v |-> "unset"] :
            t \in {"npm", "pypi", "custom"}, p \in BOOLEAN}
    \cup {[dict |-> TRUE, type |-> "github", param |-> p, strip_v |-> sv] :
            p \in BOOLEAN, sv \in {"unset", "false", "true"}}

\* The release tags and versions the upstreams answer with.
Tags == {<<"1">>, <<"v", "1">>, <<"v", "v", "1">>}
PackageVersions == {<<"1">>}
ProbeOutputs == {<<"1", "\n">>}

Resp(k, v) == [k |-> k, v |-> v]

\* What an HTTP upstream can do with a request: the connection fails, the
\* status is not a success, the 20 s timeout passes, the body is not JSON,
\* the body lacks the field, the field is there (null or a string), or a
\* fault that is no Exception (asyncio.CancelledError, KeyboardInterrupt)
\* is raised at the await.
HttpResponses(values) ==
    {Resp(k, None) : k \in {"neterr", "status", "timeout", "badjson", "nofield", "fault"}}
    \cup {Resp("body", v) : v \in {None} \cup {Str(x) : x \in values}}

\* What a probe command can do: exit 0 with some output, exit non-zero, or
\* the await is left by a fault that is no Exception.
ProbeResponses ==
    {Resp("exitfail", None), Resp("fault", None)}
    \cup {Resp("exit0", Str(x)) : x \in ProbeOutputs}

Responses(t) ==
    CASE t = "github" -> HttpResponses(Tags)
      [] t = "custom" -> ProbeResponses
      [] OTHER -> HttpResponses(PackageVersions)

(***************************************************************************)
(* The fetchers and fetch_version                                          *)
(***************************************************************************)

\* How a piece of code ends: it returns v, it raises the Exception err, or
\* it raises a fault that is not an Exception.
Return(v) == [kind |-> "return", v |-> v, err |-> "none"]
Raise(err) == [kind |-> "except", v |-> None, err |-> err]
Fault == [kind |-> "fault", v |-> None, err |-> "BaseException"]

\* get_latest_npm, get_latest_pypi, get_latest_github_release: client.get
\* raises on a connection error or a timeout, raise_for_status raises on a
\* non-success status, r.json() raises on a body that is not JSON, the
\* subscript raises KeyError on a missing field, and the field's value is
\* returned as it is.
get_latest_http(r) ==
    CASE r.k = "neterr" -> Raise("ConnectError")
      [] r.k = "timeout" -> Raise("TimeoutException")
      [] r.k = "status" -> Raise("HTTPStatusError")
      [] r.k = "badjson" -> Raise("JSONDecodeError")
      [] r.k = "nofield" -> Raise("KeyError")
      [] r.k = "body" -> Return(r.v)
      [] OTHER -> Fault

\* get_latest_custom: a non-zero exit raises RuntimeError, otherwise the
\* standard output is returned stripped of surrounding whitespace.
get_latest_custom(r) ==
    CASE r.k = "exitfail" -> Raise("RuntimeError")
      [] r.k = "exit0" -> Return(Str(strip(r.v.s)))
      [] OTHER -> Fault

\* config.get("strip_v") as a condition
StripRequested(e) == e.strip_v = "true"

\* v.lstrip("v") of fetch_version; None has no lstrip.
StripV(v) ==
    IF v.null THEN Raise("AttributeError") ELSE Return(Str(lstrip(v.s, {"v"})))

\* A variant of Dispatch: an unrecognized type raises.
Dispatch_UnknownRaises(e) ==
    CASE e.type \notin RecognizedTypes -> "keyerror"
      [] ~e.param -> "keyerror"
      [] OTHER -> "await"

\* The part of fetch_version's try block before its await: an unrecognized
\* or missing type returns (server, None) at once, a missing package, repo
\* or command raises KeyError, anything else calls its fetcher.
Dispatch(e) ==
    CASE e.type \notin RecognizedTypes -> "skip"
      [] ~e.param -> "keyerror"
      [] OTHER -> "await"

\* The part of fetch_version's try block from the fetcher's answer r on.
TryBlock(e, r) ==
    CASE e.type = "custom" -> get_latest_custom(r)
      [] e.type = "github" ->
            LET o == get_latest_http(r)
            IN  IF o.kind = "return" /\ StripRequested(e) THEN StripV(o.v) ELSE o
      [] OTHER -> get_latest_http(r)

\* A variant of Caught: except httpx.HTTPError.
Caught_OnlyHttpErrors(o) ==
    o.kind = "except" /\ o.err \in {"ConnectError", "TimeoutException", "HTTPStatusError"}

\* except Exception: what the handler of fetch_version catches.
Caught(o) == o.kind = "except"

\* print(f"Error fetching version for {server}: {e}", file=sys.stderr)
PrintError(err, server, e) == Append(err, [server |-> server, e |-> e])

(***************************************************************************)
(* main of server_versions.py                                              *)
(***************************************************************************)

NoResp == Resp("none", None)

\* A task that was never created (a scalar entry), and a created one.
NoTask == [st |-> "none", v |-> None, err |-> "none", r |-> NoResp, n |-> 0]
NewTask == [st |-> "ready", v |-> None, err |-> "none", r |-> NoResp, n |-> 0]

Servers == DOMAIN wiki

\* A variant of IsTable: the comprehension without its condition.
IsTable_Always(i) == TRUE

\* isinstance(config, dict) of main's list comprehension
IsTable(i) == wiki[i].dict

Finished(t) == t.st \in {"none", "returned", "raised", "cancelled"}

\* A variant of GatherReturns: a wait that ends with the first task.
GatherReturns_FirstCompleted ==
    \/ \A i \in Servers : task[i].st = "none"
    \/ \E i \in Servers : task[i].st = "returned"

\* asyncio.gather without return_exceptions: the awaiting main is resumed
\* with the results when every task has returned, and with the exception
\* as soon as one task has raised.
GatherReturns == \A i \in Servers : task[i].st \in {"none", "returned"}

GatherRaises == \E i \in Servers : task[i].st = "raised"

\* The list gather returns: the (server, version) of every task, in the
\* order of the tasks.
RECURSIVE ResultsFrom(_)
ResultsFrom(i) ==
    IF i > Len(wiki) THEN <<>>
    ELSE IF task[i].st = "none" THEN ResultsFrom(i + 1)
    ELSE <<[s |-> i, v |-> task[i].v]>> \o ResultsFrom(i + 1)

\* A variant of Results: every pair carries the server of the last task.
Results_LateBinding ==
    LET rs == ResultsFrom(1)
    IN  [k \in DOMAIN rs |-> [s |-> rs[Len(rs)].s, v |-> rs[k].v]]

Results == ResultsFrom(1)

\* A variant of Versions: the comprehension without its condition.
RECURSIVE Versions_KeepNone(_)
Versions_KeepNone(rs) ==
    IF rs = <<>> THEN <<>>
    ELSE LET d == Versions_KeepNone(SubSeq(rs, 1, Len(rs) - 1))
             p == rs[Len(rs)]
         IN  [x \in DOMAIN d \cup {p.s} |-> IF x = p.s THEN p.v ELSE d[x]]

\* {s: v for s, v in results if v is not None}: a later pair replaces an
\* earlier one of the same server.
RECURSIVE Versions(_)
Versions(rs) ==
    IF rs = <<>> THEN <<>>
    ELSE LET d == Versions(SubSeq(rs, 1, Len(rs) - 1))
             p == rs[Len(rs)]
         IN  IF p.v.null THEN d
             ELSE [x \in DOMAIN d \cup {p.s} |-> IF x = p.s THEN p.v ELSE d[x]]

ImagesIdle ==
    /\ ipc = "idle"
    /\ ienv = <<>>
    /\ gitcmd = <<>>
    /\ iout = <<>>
    /\ iexit = -1

Init ==
    /\ pc = "start"
    /\ wiki = <<>>
    /\ task = <<>>
    /\ requests = {}
    /\ stderr = <<>>
    /\ stdout = <<>>
    /\ exit = -1
    /\ ImagesIdle

\* open("registry.toml") or tomllib.load raises: the process ends with a
\* traceback before anything is fetched.
LoadConfigFails ==
    /\ pc = "start"
    /\ pc' = "load_raised"
    /\ exit' = 1
    /\ UNCHANGED <<wiki, task, requests, stderr, stdout>>
    /\ UNCHANGED ivars

\* wiki = tomllib.load(f)
LoadConfig ==
    /\ pc = "start"
    /\ \E n \in 0..NumServers : \E w \in [1..n -> Entries] : wiki' = w
    /\ pc' = "loaded"
    /\ UNCHANGED <<task, requests, stderr, stdout, exit>>
    /\ UNCHANGED ivars

\* The client is opened, one fetch_version coroutine is made per table of
\* wiki, gather wraps each in a task, and main awaits the gather.
Launch ==
    /\ pc = "loaded"
    /\ task' = [i \in Servers |-> IF IsTable(i) THEN NewTask ELSE NoTask]
    /\ pc' = "gather"
    /\ UNCHANGED <<wiki, requests, stderr, stdout, exit>>
    /\ UNCHANGED ivars

\* The task's state after fetch_version ended as o: a caught exception is
\* printed and (server, None) returned, a fault ends the task raised.
Ended(t, o) ==
    CASE o.kind = "return" -> [t EXCEPT !.st = "returned", !.n = @ + 1, !.v = o.v]
      [] Caught(o) -> [t EXCEPT !.st = "returned", !.n = @ + 1, !.err = o.err]
      [] OTHER -> [t EXCEPT !.st = "raised"]

End(i, t, o) ==
    /\ task' = [task EXCEPT ![i] = Ended(t, o)]
    /\ stderr' = IF Caught(o) THEN PrintError(stderr, i, o.err) ELSE stderr

\* A task runs fetch_version from its start to its first await, or to its
\* end when it has none.
TaskStart(i) ==
    /\ pc = "gather"
    /\ task[i].st = "ready"
    /\ LET d == Dispatch(wiki[i])
       IN  CASE d = "skip" ->
                    /\ End(i, task[i], Return(None))
                    /\ UNCHANGED requests
             [] d = "keyerror" ->
                    /\ End(i, task[i], Raise("KeyError"))
                    /\ UNCHANGED requests
             [] OTHER ->
                    /\ task' = [task EXCEPT ![i].st = "awaiting"]
                    /\ requests' = requests \cup {i}
                    /\ UNCHANGED stderr
    /\ UNCHANGED <<pc, wiki, stdout, exit>>
    /\ UNCHANGED ivars

\* The upstream of task i answers with r and the task runs to its end.
TaskResume(i) ==
    /\ pc = "gather"
    /\ task[i].st = "awaiting"
    /\ \E r \in Responses(wiki[i].type) :
            End(i, [task[i] EXCEPT !.r = r], TryBlock(wiki[i], r))
    /\ UNCHANGED <<pc, wiki, requests, stdout, exit>>
    /\ UNCHANGED ivars

\* Every task has returned: main leaves the client, builds versions, dumps
\* it and ends.
GatherDone ==
    /\ pc = "gather"
    /\ GatherReturns
    /\ stdout' = Append(stdout, Versions(Results))
    /\ pc' = "done"
    /\ exit' = 0
    /\ UNCHANGED <<wiki, task, requests, stderr>>
    /\ UNCHANGED ivars

\* A task has raised: gather hands the exception to main, which leaves the
\* client and ends with it; asyncio.run cancels the tasks still running,
\* whose CancelledError is no Exception, and the process ends non-zero.
GatherFails ==
    /\ pc = "gather"
    /\ GatherRaises
    /\ task' = [i \in Servers |->
                    IF Finished(task[i]) THEN task[i]
                    ELSE [task[i] EXCEPT !.st = "cancelled"]]
    /\ pc' = "gather_raised"
    /\ exit' = 1
    /\ UNCHANGED <<wiki, requests, stderr, stdout>>
    /\ UNCHANGED ivars

Next ==
    \/ LoadConfigFails
    \/ LoadConfig
    \/ Launch
    \/ \E i \in Servers : TaskStart(i)
    \/ \E i \in Servers : TaskResume(i)
    \/ GatherDone
    \/ GatherFails

Spec == Init /\ [][Next]_vars

(***************************************************************************)
(* Properties of server_versions.py                                        *)
(***************************************************************************)

Tasks == DOMAIN task

\* The number of diagnostics that name server i.
Diagnostics(i) == Cardinality({k \in DOMAIN stderr : stderr[k].server = i})

InSomeReport(i) == \E k \in DOMAIN stdout : i \in DOMAIN stdout[k]

\* fetch_version returned a version for entry i.
Succeeded(i) == task[i].st = "returned" /\ ~task[i].v.null

\* C1: every report written is exactly the mapping from the object-valued
\* entries whose fetch_version returned a version to that version: a failed
\* entry removes or changes no successful one, and no other name appears.
C1_ReportIsTheSuccesses ==
    \A k \in DOMAIN stdout :
        stdout[k] = [i \in {j \in Tasks : wiki[j].dict /\ Succeeded(j)} |-> task[i].v]

\* A report was written in a run where one entry succeeded and another failed.
C1_Witness ==
    /\ stdout # <<>>
    /\ \E i, j \in Tasks : Succeeded(i) /\ task[j].err # "none"

\* C2: when the report has been written no fetch_version task is pending:
\* each one has reached its end.
C2_ReportAfterJoin ==
    stdout # <<>> => \A i \in Tasks : task[i].st \notin {"ready", "awaiting"}

\* A report was written after two tasks, one of which had awaited its
\* upstream, returned.
C2_Witness ==
    /\ stdout # <<>>
    /\ \E i, j \in Tasks : i # j /\ task[i].st = "returned" /\ task[j].st = "returned"
                           /\ i \in requests

\* fetch_version run alone on entry e with the upstream's answer r: the
\* version it returns, None when it returns none.
FetchVersionAlone(e, r) ==
    LET o == CASE Dispatch(e) = "skip" -> Return(None)
               [] Dispatch(e) = "keyerror" -> Raise("KeyError")
               [] OTHER -> TryBlock(e, r)
    IN  IF o.kind = "return" THEN o.v ELSE None

\* The report of a run that calls fetch_version on one entry after the
\* other, in the order of the file, with the answers the upstreams gave.
RECURSIVE SequentialReport(_)
SequentialReport(n) ==
    IF n = 0 THEN <<>>
    ELSE LET d == SequentialReport(n - 1)
             v == FetchVersionAlone(wiki[n], task[n].r)
         IN  IF ~wiki[n].dict \/ v.null THEN d
             ELSE [x \in DOMAIN d \cup {n} |-> IF x = n THEN v ELSE d[x]]

\* C3: the report of the interleaved tasks is the report of running
\* fetch_version on the entries one at a time with the same upstream answers.
C3_ConcurrentIsSequential ==
    \A k \in DOMAIN stdout : stdout[k] = SequentialReport(Len(wiki))

\* A report with two successful entries whose upstreams were both awaited.
C3_Witness ==
    /\ stdout # <<>>
    /\ \E i, j \in Tasks : i # j /\ Succeeded(i) /\ Succeeded(j) /\ {i, j} \subseteq requests

\* Entry i is of a recognized kind and its fetch failed: a parameter is
\* missing, or the upstream answered with a network error, a non-success
\* status, a timeout, a malformed body, a body without the field, a
\* non-zero exit, or a null tag that was to be stripped.
FetchFailed(i) ==
    /\ wiki[i].dict
    /\ wiki[i].type \in RecognizedTypes
    /\ task[i].st \in {"returned", "raised"}
    /\ \/ ~wiki[i].param
       \/ task[i].r.k \in {"neterr", "status", "timeout", "badjson", "nofield", "exitfail"}
       \/ wiki[i].type = "github" /\ wiki[i].strip_v = "true"
          /\ task[i].r.k = "body" /\ task[i].r.v.null

\* C4: a component of a recognized kind whose fetch failed is in no report
\* and is named by exactly one diagnostic; a component whose fetch succeeded
\* is named by none; so there are as many diagnostics as failed components.
C4_OneDiagnosticPerFailure ==
    /\ \A i \in Tasks : FetchFailed(i) => Diagnostics(i) = 1 /\ ~InSomeReport(i)
    /\ \A i \in Tasks : Succeeded(i) => Diagnostics(i) = 0
    /\ Len(stderr) = Cardinality({i \in Tasks : FetchFailed(i)})

\* The report was written after two fetches failed, one of them at its
\* upstream.
C4_Witness ==
    /\ stdout # <<>>
    /\ \E i, j \in Tasks : i # j /\ FetchFailed(i) /\ FetchFailed(j) /\ i \in requests

\* C5: for an object-valued entry whose type is missing or unrecognized no
\* fetch is performed, no diagnostic is written, and its name is in no report.
C5_UnrecognizedKindIsSkipped ==
    \A i \in Tasks :
        wiki[i].dict /\ wiki[i].type \notin RecognizedTypes
            => i \notin requests /\ Diagnostics(i) = 0 /\ ~InSomeReport(i)

\* The report was written in a run with an entry of an unrecognized type, an
\* entry without a type, or both.
C5_Witness ==
    /\ stdout # <<>>
    /\ \E i \in Tasks : wiki[i].dict /\ wiki[i].type \in {"none", "docker"}
                        /\ task[i].st = "returned"

\* Which of version and error the outcome of task i has.
HasVersion(i) == ~task[i].v.null
HasError(i) == task[i].err # "none"

NullVersion(i) ==
    /\ task[i].r.k = "body"
    /\ task[i].r.v.null
    /\ ~(wiki[i].type = "github" /\ wiki[i].strip_v = "true")

DropOneV(t) == IF t # <<>> /\ Head(t) = "v" THEN Tail(t) ELSE t

\* C7: a github entry whose release has tag t reports t with a single
\* leading "v" dropped when strip_v is set, and t unchanged when strip_v is
\* unset or false.
C7_StripDropsOneCharacter ==
    \A i \in Tasks :
        (/\ wiki[i].dict /\ wiki[i].type = "github" /\ task[i].st = "returned"
         /\ task[i].r.k = "body" /\ ~task[i].r.v.null)
        => task[i].v = IF wiki[i].strip_v = "true"
                       THEN Str(DropOneV(task[i].r.v.s))
                       ELSE task[i].r.v

\* C8: when a fault has escaped task i, main still ends with every sibling
\* j run to its own end, not cancelled, and with the report written, which
\* holds j if j succeeded.
C8_FaultDoesNotStopSiblings ==
    \A i, j \in Tasks :
        (/\ pc \in {"done", "gather_raised"}
         /\ i # j
         /\ task[i].st = "raised"
         /\ wiki[j].dict)
        => /\ task[j].st \in {"returned", "raised"}
           /\ Len(stdout) = 1
           /\ Succeeded(j) => InSomeReport(j)

\* C9: a run that has loaded the configuration ends with exactly one report
\* written and exit status 0.
C9_EndsWithReportAndStatusZero ==
    pc \in {"done", "gather_raised"} => Len(stdout) = 1 /\ exit = 0

(***************************************************************************)
(* get_changed_images.py                                                   *)
(***************************************************************************)

\* The names used below, as strings.
A == <<"a">>
AB == <<"a", "b">>
SCRIPTS == <<"s", "c", "r", "i", "p", "t", "s">>
README == <<"R", "E", "A", "D", "M", "E">>
REGISTRY == <<"r", "e", "g", "i", "s", "t", "r", "y", ".", "t", "o", "m", "l">>
GITHUBWORKFLOWS == <<".", "g", "i", "t", "h", "u", "b", "/", "w", "o", "r", "k", "f", "l", "o", "w", "s", "/">>
AF == <<"a", "/", "f">>
ABF == <<"a", "b", "/", "f">>
SCRIPTSF == <<"s", "c", "r", "i", "p", "t", "s", "/", "f">>
WORKFLOWF == <<".", "g", "i", "t", "h", "u", "b", "/", "w", "o", "r", "k", "f", "l", "o", "w", "s", "/", "f">>

\* str.startswith
startswith(f, prefix) ==
    Len(f) >= Len(prefix) /\ SubSeq(f, 1, Len(prefix)) = prefix

\* The code points of the characters of the names below.
Ord ==
    ("." :> 46) @@ ("/" :> 47) @@ ("A" :> 65) @@ ("D" :> 68) @@ ("E" :> 69) @@ ("M" :> 77) @@ ("R" :> 82)
    @@ ("a" :> 97) @@ ("b" :> 98) @@ ("c" :> 99) @@ ("e" :> 101) @@ ("f" :> 102) @@ ("g" :> 103) @@ ("h" :> 104) @@ ("i" :> 105) @@ ("k" :> 107) @@ ("l" :> 108) @@ ("m" :> 109)
    @@ ("o" :> 111) @@ ("p" :> 112) @@ ("r" :> 114) @@ ("s" :> 115) @@ ("t" :> 116) @@ ("u" :> 117) @@ ("w" :> 119) @@ ("y" :> 121)

\* s < t for two strings, as list.sort compares them.
RECURSIVE StrLess(_, _)
StrLess(s, t) ==
    CASE s = <<>> -> t # <<>>
      [] t = <<>> -> FALSE
      [] Head(s) # Head(t) -> Ord[Head(s)] < Ord[Head(t)]
      [] OTHER -> StrLess(Tail(s), Tail(t))

\* list.sort() on a list of distinct strings
RECURSIVE sort(_)
sort(l) ==
    IF l = <<>> THEN <<>>
    ELSE LET m == CHOOSE k \in DOMAIN l : \A j \in DOMAIN l : j = k \/ ~StrLess(l[j], l[k])
             rest == [j \in 1..(Len(l) - 1) |-> IF j < m THEN l[j] ELSE l[j + 1]]
         IN  <<l[m]>> \o sort(rest)

\* What the working directory can hold: image directories "a" and "ab", a
\* directory without a ContainerFile and a plain file.
DirEntries ==
    << [name |-> A, is_dir |-> TRUE, containerfile |-> TRUE],
       [name |-> AB, is_dir |-> TRUE, containerfile |-> TRUE],
       [name |-> SCRIPTS, is_dir |-> TRUE, containerfile |-> FALSE],
       [name |-> README, is_dir |-> FALSE, containerfile |-> FALSE] >>

\* Path(".").iterdir(): some of the entries, in an order of the file system's
\* choosing.
Listings ==
    {l \in UNION {[1..n -> DOMAIN DirEntries] : n \in 0..Len(DirEntries)} :
        \A j, k \in DOMAIN l : j # k => l[j] # l[k]}

\* The paths git diff --name-only can print.
Paths ==
    << AF, ABF, SCRIPTSF, WORKFLOWF, README, REGISTRY >>

RECURSIVE PathList(_, _)
PathList(S, k) ==
    IF k > Len(Paths) THEN <<>>
    ELSE (IF k \in S THEN <<Paths[k]>> ELSE <<>>) \o PathList(S, k + 1)

\* What running git diff can do: print some paths and exit 0, exit non-zero
\* (CalledProcessError under check=True), or not start at all
\* (FileNotFoundError: no git executable).
GitAnswers ==
    {[k |-> "ok", files |-> PathList(S, 1)] : S \in SUBSET DOMAIN Paths}
    \cup {[k |-> "CalledProcessError", files |-> <<>>],
          [k |-> "FileNotFoundError", files |-> <<>>]}

\* GITHUB_EVENT_BEFORE: unset, empty, forty zeros, or a commit.
Befores == {"unset", "empty", "zeros", "sha"}

Events == {"pull_request", "workflow_dispatch", "push"}

\* get_changed_files: the lines git printed, [] when git exited non-zero;
\* any other exception of subprocess.run is not caught.
get_changed_files(git) ==
    CASE git.k = "ok" -> [raised |-> FALSE, files |-> git.files]
      [] git.k = "CalledProcessError" -> [raised |-> FALSE, files |-> <<>>]
      [] OTHER -> [raised |-> TRUE, files |-> <<>>]

\* [d.name for d in Path(".").iterdir() if d.is_dir() and (d / "ContainerFile").exists()]
RECURSIVE ImageDirs(_)
ImageDirs(l) ==
    IF l = <<>> THEN <<>>
    ELSE LET d == DirEntries[Head(l)]
         IN  (IF d.is_dir /\ d.containerfile THEN <<d.name>> ELSE <<>>)
             \o ImageDirs(Tail(l))

global_triggers == <<REGISTRY, SCRIPTS \o <<"/">>, GITHUBWORKFLOWS>>

\* Lines 58-81 of main: the sorted image directories, all of them when a
\* changed file starts with a global trigger, else those with a changed file
\* under them.
SelectedImages(listing, changed_files) ==
    LET all_images == sort(ImageDirs(listing))
        rebuild_all ==
            \E k \in DOMAIN changed_files : \E g \in DOMAIN global_triggers :
                startswith(changed_files[k], global_triggers[g])
        changed(img) ==
            \E k \in DOMAIN changed_files : startswith(changed_files[k], img \o <<"/">>)
    IN  IF rebuild_all THEN all_images ELSE SelectSeq(all_images, changed)

ServerIdle ==
    /\ pc = "idle"
    /\ wiki = <<>>
    /\ task = <<>>
    /\ requests = {}
    /\ stderr = <<>>
    /\ stdout = <<>>
    /\ exit = -1

ImagesInit ==
    /\ ipc = "start"
    /\ ienv \in [event : Events, before : Befores, listing : Listings, git : GitAnswers]
    /\ gitcmd = <<>>
    /\ iout = <<>>
    /\ iexit = -1
    /\ ServerIdle

\* main after changed_files is set, or after get_changed_files raised
\* outside a try.
Finish(c) ==
    IF c.raised
    THEN ipc' = "raised" /\ iexit' = 1 /\ iout' = iout
    ELSE /\ ipc' = "done"
         /\ iexit' = 0
         /\ iout' = Append(iout, SelectedImages(ienv.listing, c.files))

\* main on a pull_request event: origin/<base ref>...HEAD
PullRequest ==
    /\ ipc = "start"
    /\ ienv.event = "pull_request"
    /\ gitcmd' = Append(gitcmd, [base |-> "origin/base_ref", head |-> "HEAD", triple_dot |-> TRUE])
    /\ Finish(get_changed_files(ienv.git))
    /\ UNCHANGED <<ienv, svars>>

\* main on a workflow_dispatch event: HEAD^ against HEAD
WorkflowDispatch ==
    /\ ipc = "start"
    /\ ienv.event = "workflow_dispatch"
    /\ gitcmd' = Append(gitcmd, [base |-> "HEAD^", head |-> "HEAD", triple_dot |-> FALSE])
    /\ Finish(get_changed_files(ienv.git))
    /\ UNCHANGED <<ienv, svars>>

\* main on any other event with GITHUB_EVENT_BEFORE unset, empty or all
\* zeros: HEAD^ against HEAD inside try, and whatever get_changed_files
\* raises is answered by printing the unsorted image directories.
PushNewBranch ==
    /\ ipc = "start"
    /\ ienv.event \notin {"pull_request", "workflow_dispatch"}
    /\ ienv.before \in {"unset", "empty", "zeros"}
    /\ gitcmd' = Append(gitcmd, [base |-> "HEAD^", head |-> "HEAD", triple_dot |-> FALSE])
    /\ LET c == get_changed_files(ienv.git)
       IN  IF c.raised
           THEN /\ iout' = Append(iout, ImageDirs(ienv.listing))
                /\ ipc' = "done"
                /\ iexit' = 0
           ELSE Finish(c)
    /\ UNCHANGED <<ienv, svars>>

\* main on any other event with a base commit: before against GITHUB_SHA
Push ==
    /\ ipc = "start"
    /\ ienv.event \notin {"pull_request", "workflow_dispatch"}
    /\ ienv.before \notin {"unset", "empty", "zeros"}
    /\ gitcmd' = Append(gitcmd, [base |-> ienv.before, head |-> "GITHUB_SHA", triple_dot |-> FALSE])
    /\ Finish(get_changed_files(ienv.git))
    /\ UNCHANGED <<ienv, svars>>

ImagesNext == PullRequest \/ WorkflowDispatch \/ PushNewBranch \/ Push

ImagesSpec == ImagesInit /\ [][ImagesNext]_vars

\* The set of the elements of a sequence.
Range(l) == {l[k] : k \in DOMAIN l}

\* C10: on a push whose base sha is unset, empty or all zeros and whose diff
\* of HEAD^ against HEAD fails with git exiting non-zero, main prints the
\* list of all the image directories.
C10_FailedDiffRebuildsAll ==
    /\ ipc = "done"
    /\ ienv.event = "push"
    /\ ienv.before \in {"unset", "empty", "zeros"}
    /\ ienv.git.k = "CalledProcessError"
    => /\ Len(iout) = 1
       /\ Range(iout[1]) = Range(ImageDirs(ienv.listing))

====
